---- MODULE Spec2Model ----
(***************************************************************************)
(* Model of the log parsing engine of the collector (src/logs/parse.go):   *)
(* ParseLogLineWithPrefix as an operator over log lines, and the buffer    *)
(* scan of ParseAndAnalyzeBuffer as a state machine that reads one line    *)
(* per step.                                                               *)
(*                                                                         *)
(* A log line is kept in lexed form: a record of the lexemes it is made    *)
(* of (time text, pid text, level text, body ...) together with the shape  *)
(* that says how they are laid out.  Text(l) is the byte string of the     *)
(* line; the regular expressions of parse.go are modelled by the shapes    *)
(* whose text they match and by the capture groups they return.            *)
(***************************************************************************)
EXTENDS Integers, Sequences, FiniteSets, TLC

(***************************************************************************)
(* Bounds of the model.                                                    *)
(***************************************************************************)
\* largest number of newline-terminated lines in a buffer
MaxLines == 3

(***************************************************************************)
(* Constants of parse.go.                                                  *)
(***************************************************************************)
LogPrefixAmazonRds == "%t:%r:%u@%d:[%p]:"
LogPrefixCustom1 == "%m [%p][%v] : [%l-1] %q[app=%a] "
LogPrefixCustom2 == "%t [%p-%l] %q%u@%d "
LogPrefixCustom3 == "%m [%p] %q[user=%u,db=%d,app=%a] "
LogPrefixCustom4 == "%m [%p] %q[user=%u,db=%d,app=%a,host=%h] "
LogPrefixCustom5 == "%t [%p]: [%l-1] user=%u,db=%d - PG-%e "
LogPrefixCustom6 == "%t [%p]: [%l-1] user=%u,db=%d,app=%a,client=%h "
LogPrefixCustom7 == "%t [%p]: [%l-1] [trx_id=%x] user=%u,db=%d "
LogPrefixSimple == "%m [%p] "
LogPrefixEmpty == ""

\* the layouts handed to time.Parse
TimeFormat == "2006-01-02 15:04:05 -0700"
TimeFormatAlt == "2006-01-02 15:04:05 MST"
TimeFormatSyslog == "2006 Jan  2 15:04:05"

\* time.Now().Year(), as fmt.Sprintf("%d") prints it
TimeNowYear == "2018"

\* The zero time.Time (January 1, year 1).  Times are counted in seconds
\* after 2018-01-01 00:00:00 UTC; every time text of the model lies after
\* that instant, so the order of the times is preserved.
ZeroTime == 0

(***************************************************************************)
(* Lexed lines.                                                            *)
(***************************************************************************)
RECURSIVE Join(_)
\* the concatenation of the segments of a body
Join(segs) == IF segs = <<>> THEN "" ELSE Head(segs) \o Join(Tail(segs))

\* a line of the given shape; lexemes a shape does not use are empty
Line(shape, time, pid, user, db, app, host, q, level, sep, body) ==
    [shape |-> shape, time |-> time, pid |-> pid, user |-> user, db |-> db,
     app |-> app, host |-> host, q |-> q, level |-> level, sep |-> sep,
     body |-> body]

\* "LEVEL:<white space>body\n", the part LevelAndContentRegexp matches
LevelAndContentText(l) == l.level \o ":" \o l.sep \o Join(l.body) \o "\n"

\* the bytes of a line, newline included
Text(l) ==
    CASE l.shape = "rds" ->
           l.time \o ":" \o l.host \o ":" \o l.user \o "@" \o l.db \o ":["
             \o l.pid \o "]:" \o LevelAndContentText(l)
      [] l.shape = "custom1" ->
           l.time \o " [" \o l.pid \o "][" \o l.host \o "] : [1-1] "
             \o (IF l.q THEN "[app=" \o l.app \o "] " ELSE "")
             \o LevelAndContentText(l)
      [] l.shape = "custom2" ->
           l.time \o " [" \o l.pid \o "-1] "
             \o (IF l.q THEN l.user \o "@" \o l.db \o " " ELSE "")
             \o LevelAndContentText(l)
      [] l.shape = "custom3" ->
           l.time \o " [" \o l.pid \o "] [user=" \o l.user \o ",db=" \o l.db
             \o ",app=" \o l.app \o "] " \o LevelAndContentText(l)
      [] l.shape = "custom4" ->
           l.time \o " [" \o l.pid \o "] [user=" \o l.user \o ",db=" \o l.db
             \o ",app=" \o l.app \o ",host=" \o l.host \o "] "
             \o LevelAndContentText(l)
      [] l.shape = "custom5" ->
           l.time \o " [" \o l.pid \o "]: [1-1] user=" \o l.user \o ",db="
             \o l.db \o " - PG-" \o l.host \o " " \o LevelAndContentText(l)
      [] l.shape = "custom6" ->
           l.time \o " [" \o l.pid \o "]: [1-1] user=" \o l.user \o ",db="
             \o l.db \o ",app=" \o l.app \o ",client=" \o l.host \o " "
             \o LevelAndContentText(l)
      [] l.shape = "custom7" ->
           l.time \o " [" \o l.pid \o "]: [1-1] [trx_id=" \o l.host
             \o "] user=" \o l.user \o ",db=" \o l.db \o " "
             \o LevelAndContentText(l)
      [] l.shape = "simple" ->
           l.time \o " [" \o l.pid \o "] " \o LevelAndContentText(l)
      [] l.shape = "syslog" ->
           l.time \o " " \o l.host \o " postgres[" \o l.pid \o "]: [1-1] "
             \o (IF l.q
                 THEN "[user=" \o l.user \o ",db=" \o l.db \o ",app="
                        \o l.app \o "] "
                 ELSE "")
             \o (IF l.level = "" THEN "" ELSE l.level \o ":" \o l.sep)
             \o Join(l.body) \o "\n"
      [] l.shape = "heroku" ->
           "[" \o l.host \o "] [1-1] "
             \o (IF l.q
                 THEN " sql_error_code = 00000 " \o l.level \o ":  "
                 ELSE "")
             \o Join(l.body) \o "\n"
      [] OTHER -> Join(l.body) \o "\n"

(***************************************************************************)
(* The regular expressions.  Each operator gives what FindStringSubmatch   *)
(* returns on the text of l: the whole match at index 0 and the capture    *)
(* groups after it, or NoMatch when the expression does not match.  An     *)
(* optional group that took no part in the match is the empty string.      *)
(***************************************************************************)
NoMatch == <<>>

Parts(seq) == [i \in 0 .. Len(seq) - 1 |-> seq[i + 1]]

\* len(parts)
PartsLen(parts) == Cardinality(DOMAIN parts)

\* the last group of LevelAndContentRegexp, (.*\n?)$ after (\w+):\s+ : the
\* greedy \s+ takes the newline too when nothing but white space follows
ContentGroup(l) == IF l.body = <<>> THEN "" ELSE Join(l.body) \o "\n"

LogPrefixAmazonRdsRegxp(l) ==
    IF l.shape = "rds"
    THEN Parts(<<Text(l), l.time, l.host, l.user, l.db, l.pid, l.level,
                 ContentGroup(l)>>)
    ELSE NoMatch

LogPrefixCustom1Regexp(l) ==
    IF l.shape = "custom1"
    THEN Parts(<<Text(l), l.time, l.pid, l.host, "1",
                 IF l.q THEN l.app ELSE "", l.level, ContentGroup(l)>>)
    ELSE NoMatch

LogPrefixCustom2Regexp(l) ==
    IF l.shape = "custom2"
    THEN Parts(<<Text(l), l.time, l.pid, "1", IF l.q THEN l.user ELSE "",
                 IF l.q THEN l.db ELSE "", l.level, ContentGroup(l)>>)
    ELSE NoMatch

\* also matches a custom 4 line (app=(\S*) then takes "app,host=h") and,
\* with its optional group left out, a line of the minimal format
LogPrefixCustom3Regexp(l) ==
    CASE l.shape = "custom3" ->
           Parts(<<Text(l), l.time, l.pid, l.user, l.db, l.app, l.level,
                   ContentGroup(l)>>)
      [] l.shape = "custom4" ->
           Parts(<<Text(l), l.time, l.pid, l.user, l.db,
                   l.app \o ",host=" \o l.host, l.level, ContentGroup(l)>>)
      [] l.shape = "simple" ->
           Parts(<<Text(l), l.time, l.pid, "", "", "", l.level,
                   ContentGroup(l)>>)
      [] OTHER -> NoMatch

\* with its optional group left out, also matches a line of the minimal format
LogPrefixCustom4Regexp(l) ==
    CASE l.shape = "custom4" ->
           Parts(<<Text(l), l.time, l.pid, l.user, l.db, l.app, l.host,
                   l.level, ContentGroup(l)>>)
      [] l.shape = "simple" ->
           Parts(<<Text(l), l.time, l.pid, "", "", "", "", l.level,
                   ContentGroup(l)>>)
      [] OTHER -> NoMatch

LogPrefixCustom5Regexp(l) ==
    IF l.shape = "custom5"
    THEN Parts(<<Text(l), l.time, l.pid, "1", l.user, l.db, l.host, l.level,
                 ContentGroup(l)>>)
    ELSE NoMatch

LogPrefixCustom6Regexp(l) ==
    IF l.shape = "custom6"
    THEN Parts(<<Text(l), l.time, l.pid, "1", l.user, l.db, l.app, l.host,
                 l.level, ContentGroup(l)>>)
    ELSE NoMatch

LogPrefixCustom7Regexp(l) ==
    IF l.shape = "custom7"
    THEN Parts(<<Text(l), l.time, l.pid, "1", l.host, l.user, l.db, l.level,
                 ContentGroup(l)>>)
    ELSE NoMatch

LogPrefixSimpleRegexp(l) ==
    IF l.shape = "simple"
    THEN Parts(<<Text(l), l.time, l.pid, l.level, ContentGroup(l)>>)
    ELSE NoMatch

\* The syslog wrapper.  Its level group is optional: a line with the
\* embedded [user=,db=,app=] part, or with no level at all, leaves it empty
\* and has everything after the sequence number as its content.
RsyslogRegexp(l) ==
    IF l.shape = "syslog"
    THEN Parts(<<Text(l), l.time, l.host, "postgres", l.pid, "[1-1]",
                 IF l.q THEN "" ELSE l.level,
                 IF l.q
                 THEN "[user=" \o l.user \o ",db=" \o l.db \o ",app="
                        \o l.app \o "] " \o LevelAndContentText(l)
                 ELSE IF l.level = "" THEN Join(l.body) \o "\n"
                 ELSE ContentGroup(l)>>)
    ELSE NoMatch

\* strings.Replace(s, "#011", "\t", -1) on a body given by its segments
ReplaceTab(segs) ==
    [i \in DOMAIN segs |-> IF segs[i] = "#011" THEN "\t" ELSE segs[i]]

\* LogPrefixNoTimestampUserDatabaseAppRegexp applied to the content of a
\* syslog line in which "#011" has been replaced
LogPrefixNoTimestampUserDatabaseAppRegexp(l) ==
    IF l.shape = "syslog" /\ l.q
    THEN Parts(<<"[user=" \o l.user \o ",db=" \o l.db \o ",app=" \o l.app
                   \o "] " \o l.level \o ":" \o l.sep
                   \o Join(ReplaceTab(l.body)) \o "\n",
                 l.user, l.db, l.app, l.level,
                 IF l.body = <<>> THEN ""
                 ELSE Join(ReplaceTab(l.body)) \o "\n">>)
    ELSE NoMatch

\* The wrapped-debug format, without the optional envelope in front.  Its
\* third group, with the SQLSTATE and the level in it, is optional; the
\* last group (.+) stops before the newline.
HerokuPostgresDebugRegexp(l) ==
    IF l.shape = "heroku" /\ l.body # <<>>
    THEN Parts(<<"[" \o l.host \o "] [1-1] "
                   \o (IF l.q
                       THEN " sql_error_code = 00000 " \o l.level \o ":  "
                       ELSE "")
                   \o Join(l.body),
                 "", l.host,
                 IF l.q THEN " sql_error_code = 00000 " \o l.level \o ":  "
                 ELSE "",
                 IF l.q THEN "00000" ELSE "",
                 IF l.q THEN l.level ELSE "",
                 Join(l.body)>>)
    ELSE NoMatch

MatchString(parts) == parts # NoMatch

(***************************************************************************)
(* Library functions the parse relies on.                                  *)
(***************************************************************************)
\* The time texts of the model: the layouts under which time.Parse accepts
\* each, and the instant it then returns.  The third text has month 13: it
\* matches TimeRegexp and no layout.
TimeTexts ==
    { [text |-> "2018-01-01 00:00:10 +0000", layouts |-> {TimeFormat}, t |-> 10],
      [text |-> "2018-01-01 00:00:20 UTC", layouts |-> {TimeFormatAlt}, t |-> 20],
      [text |-> "2018-13-01 00:00:30 UTC", layouts |-> {}, t |-> 30],
      [text |-> "2018 Jan  1 00:00:40", layouts |-> {TimeFormatSyslog}, t |-> 40],
      [text |-> "2018 Jan 41 00:00:50", layouts |-> {}, t |-> 50] }

\* time.Parse(layout, value): the zero time together with an error when the
\* value is not in the layout
TimeParse(layout, value) ==
    IF \E e \in TimeTexts : e.text = value /\ layout \in e.layouts
    THEN [t |-> (CHOOSE e \in TimeTexts : e.text = value).t, err |-> FALSE]
    ELSE [t |-> ZeroTime, err |-> TRUE]

\* A Go int (64 bits, two's complement) is kept as its four 16-bit limbs,
\* the lowest first.
Limb == 65536

Int64(l0, l1, l2, l3) == <<l0, l1, l2, l3>>

\* math.MaxInt64
MaxInt64 == Int64(65535, 65535, 65535, 32767)

\* the decimal texts of the model that an int can hold, and their values
DecimalTexts ==
    [t \in {"7", "12", "345", "2147483648", "4294967297"} |->
       CASE t = "7" -> Int64(7, 0, 0, 0)
         [] t = "12" -> Int64(12, 0, 0, 0)
         [] t = "345" -> Int64(345, 0, 0, 0)
         [] t = "2147483648" -> Int64(0, 32768, 0, 0)
         [] t = "4294967297" -> Int64(1, 0, 1, 0)]

\* the decimal texts of the model that are beyond math.MaxInt64
OutOfRangeTexts == {"99999999999999999999"}

\* strconv.Atoi, its error dropped: the value of a decimal text, the
\* largest int for a decimal text out of range (ErrRange), 0 for a text
\* that is no number (ErrSyntax)
Atoi(s) ==
    IF s \in DOMAIN DecimalTexts THEN DecimalTexts[s]
    ELSE IF s \in OutOfRangeTexts THEN MaxInt64
    ELSE Int64(0, 0, 0, 0)

\* int32(n): the low 32 bits of n, as a signed number
Int32(n) ==
    IF n[2] >= Limb \div 2
    THEN (n[2] - Limb) * Limb + n[1]
    ELSE n[2] * Limb + n[1]

\* pganalyze_collector.LogLineInformation_LogLevel_value, the level-name table
LogLevel_value ==
    [n \in {"DEBUG", "INFO", "NOTICE", "WARNING", "ERROR", "LOG", "FATAL",
            "PANIC", "DETAIL", "HINT", "CONTEXT", "STATEMENT", "QUERY"} |->
       CASE n = "DEBUG" -> 1 [] n = "INFO" -> 2 [] n = "NOTICE" -> 3
         [] n = "WARNING" -> 4 [] n = "ERROR" -> 5 [] n = "LOG" -> 6
         [] n = "FATAL" -> 7 [] n = "PANIC" -> 8 [] n = "DETAIL" -> 9
         [] n = "HINT" -> 10 [] n = "CONTEXT" -> 11 [] n = "STATEMENT" -> 12
         [] n = "QUERY" -> 13]

\* m[key] of a Go map of integers: 0 for a key the map does not hold
MapLookup(m, key) == IF key \in DOMAIN m THEN m[key] ELSE 0

(***************************************************************************)
(* state.LogLine and ParseLogLineWithPrefix.                               *)
(***************************************************************************)
\* the zero value of state.LogLine
ZeroLogLine ==
    [OccurredAt |-> ZeroTime, Username |-> "", Database |-> "",
     Application |-> "", BackendPid |-> 0, LogLevel |-> 0, Content |-> "",
     ByteStart |-> 0, ByteContentStart |-> 0, ByteEnd |-> 0, UUID |-> 0]

\* the chain with custom 3 tried before custom 4
DetectPrefixCustom3First(l) ==
    IF MatchString(LogPrefixAmazonRdsRegxp(l))
    THEN [prefix |-> LogPrefixAmazonRds, rsyslog |-> FALSE]
    ELSE IF MatchString(LogPrefixCustom1Regexp(l))
    THEN [prefix |-> LogPrefixCustom1, rsyslog |-> FALSE]
    ELSE IF MatchString(LogPrefixCustom2Regexp(l))
    THEN [prefix |-> LogPrefixCustom2, rsyslog |-> FALSE]
    ELSE IF MatchString(LogPrefixCustom3Regexp(l))
    THEN [prefix |-> LogPrefixCustom3, rsyslog |-> FALSE]
    ELSE IF MatchString(LogPrefixCustom4Regexp(l))
    THEN [prefix |-> LogPrefixCustom4, rsyslog |-> FALSE]
    ELSE IF MatchString(LogPrefixCustom5Regexp(l))
    THEN [prefix |-> LogPrefixCustom5, rsyslog |-> FALSE]
    ELSE IF MatchString(LogPrefixCustom6Regexp(l))
    THEN [prefix |-> LogPrefixCustom6, rsyslog |-> FALSE]
    ELSE IF MatchString(LogPrefixCustom7Regexp(l))
    THEN [prefix |-> LogPrefixCustom7, rsyslog |-> FALSE]
    ELSE IF MatchString(LogPrefixSimpleRegexp(l))
    THEN [prefix |-> LogPrefixSimple, rsyslog |-> FALSE]
    ELSE IF MatchString(RsyslogRegexp(l))
    THEN [prefix |-> "", rsyslog |-> TRUE]
    ELSE [prefix |-> "", rsyslog |-> FALSE]

\* the chain of MatchString tests that picks the prefix of a line
DetectPrefix(l) ==
    IF MatchString(LogPrefixAmazonRdsRegxp(l))
    THEN [prefix |-> LogPrefixAmazonRds, rsyslog |-> FALSE]
    ELSE IF MatchString(LogPrefixCustom1Regexp(l))
    THEN [prefix |-> LogPrefixCustom1, rsyslog |-> FALSE]
    ELSE IF MatchString(LogPrefixCustom2Regexp(l))
    THEN [prefix |-> LogPrefixCustom2, rsyslog |-> FALSE]
    ELSE IF MatchString(LogPrefixCustom4Regexp(l))
    THEN [prefix |-> LogPrefixCustom4, rsyslog |-> FALSE]
    ELSE IF MatchString(LogPrefixCustom3Regexp(l))
    THEN [prefix |-> LogPrefixCustom3, rsyslog |-> FALSE]
    ELSE IF MatchString(LogPrefixCustom5Regexp(l))
    THEN [prefix |-> LogPrefixCustom5, rsyslog |-> FALSE]
    ELSE IF MatchString(LogPrefixCustom6Regexp(l))
    THEN [prefix |-> LogPrefixCustom6, rsyslog |-> FALSE]
    ELSE IF MatchString(LogPrefixCustom7Regexp(l))
    THEN [prefix |-> LogPrefixCustom7, rsyslog |-> FALSE]
    ELSE IF MatchString(LogPrefixSimpleRegexp(l))
    THEN [prefix |-> LogPrefixSimple, rsyslog |-> FALSE]
    ELSE IF MatchString(RsyslogRegexp(l))
    THEN [prefix |-> "", rsyslog |-> TRUE]
    ELSE [prefix |-> "", rsyslog |-> FALSE]

\* the local variables of ParseLogLineWithPrefix after the extraction;
\* returned (early) says that the function has returned early, content is what
\* logLine.Content holds at that point
Extracted(early, timePart, userPart, dbPart, appPart, pidPart, levelPart, contentPart, content, timeFormat, timeFormatAlt) ==
    [returned |-> early, timePart |-> timePart, userPart |-> userPart,
     dbPart |-> dbPart, appPart |-> appPart, pidPart |-> pidPart,
     levelPart |-> levelPart, contentPart |-> contentPart,
     content |-> content, timeFormat |-> timeFormat,
     timeFormatAlt |-> timeFormatAlt]

EarlyReturn ==
    Extracted(TRUE, "", "", "", "", "", "", "", "", TimeFormat, TimeFormatAlt)

\* one case of the switch: the groups of parts that hold each field
\* (0 for a field the prefix does not have)
SwitchCase(parts, time, user, db, app, pid, level, content) ==
    IF PartsLen(parts) = 0
    THEN EarlyReturn
    ELSE Extracted(FALSE, parts[time],
                   IF user = 0 THEN "" ELSE parts[user],
                   IF db = 0 THEN "" ELSE parts[db],
                   IF app = 0 THEN "" ELSE parts[app],
                   parts[pid], parts[level], parts[content], "",
                   TimeFormat, TimeFormatAlt)

\* strings.Replace(parts[7], "#011", "\t", -1) for the syslog line l
RsyslogContentPart(l) ==
    IF l.q
    THEN "[user=" \o l.user \o ",db=" \o l.db \o ",app=" \o l.app \o "] "
           \o l.level \o ":" \o l.sep \o Join(ReplaceTab(l.body)) \o "\n"
    ELSE IF l.level = "" \/ l.body # <<>>
    THEN Join(ReplaceTab(l.body)) \o "\n"
    ELSE ""

\* the syslog branch, given the groups of the wrapper (parts), the content
\* with "#011" replaced and the groups of the embedded sub-format (inner)
RsyslogFields(parts, contentPart, inner) ==
    IF PartsLen(parts) = 0
    THEN EarlyReturn
    ELSE IF PartsLen(inner) = 6
    THEN Extracted(FALSE, TimeNowYear \o " " \o parts[1], inner[1], inner[2],
                   inner[3], parts[4], inner[4], inner[5], "",
                   TimeFormatSyslog, "")
    ELSE Extracted(FALSE, TimeNowYear \o " " \o parts[1], "", "", "",
                   parts[4], parts[6], contentPart, "", TimeFormatSyslog, "")

ExtractRsyslog(l) ==
    RsyslogFields(RsyslogRegexp(l), RsyslogContentPart(l),
                  LogPrefixNoTimestampUserDatabaseAppRegexp(l))

\* the switch over the prefix
ExtractPrefix(prefix, l) ==
    CASE prefix = LogPrefixAmazonRds ->
           SwitchCase(LogPrefixAmazonRdsRegxp(l), 1, 3, 4, 0, 5, 6, 7)
      [] prefix = LogPrefixCustom1 ->
           SwitchCase(LogPrefixCustom1Regexp(l), 1, 0, 0, 5, 2, 6, 7)
      [] prefix = LogPrefixCustom2 ->
           SwitchCase(LogPrefixCustom2Regexp(l), 1, 4, 5, 0, 2, 6, 7)
      [] prefix = LogPrefixCustom3 ->
           SwitchCase(LogPrefixCustom3Regexp(l), 1, 3, 4, 5, 2, 6, 7)
      [] prefix = LogPrefixCustom4 ->
           SwitchCase(LogPrefixCustom4Regexp(l), 1, 3, 4, 5, 2, 7, 8)
      [] prefix = LogPrefixCustom5 ->
           SwitchCase(LogPrefixCustom5Regexp(l), 1, 4, 5, 0, 2, 7, 8)
      [] prefix = LogPrefixCustom6 ->
           SwitchCase(LogPrefixCustom6Regexp(l), 1, 4, 5, 0, 2, 8, 9)
      [] prefix = LogPrefixCustom7 ->
           SwitchCase(LogPrefixCustom7Regexp(l), 1, 5, 6, 0, 2, 7, 8)
      [] prefix = LogPrefixSimple ->
           SwitchCase(LogPrefixSimpleRegexp(l), 1, 0, 0, 0, 2, 3, 4)
      [] OTHER ->
           Extracted(FALSE, "", "", "", "", "", "", "", Text(l),
                     TimeFormat, TimeFormatAlt)

\* the two time.Parse calls: the alternative layout is tried when the first
\* fails and an alternative exists
SecondParse(first, timeFormatAlt, timePart) ==
    IF first.err /\ timeFormatAlt # ""
    THEN TimeParse(timeFormatAlt, timePart)
    ELSE first

ParseOccurredAt(x) ==
    SecondParse(TimeParse(x.timeFormat, x.timePart), x.timeFormatAlt,
                x.timePart)

\* the part stored whatever it is
ScrubNothing(part) == part

\* the "[unknown]" test on the user, database and application parts
Scrub(part) == IF part # "[unknown]" THEN part ELSE ""

\* the test left out: no line is a continuation
NeverContinuationLevel(levelPart) == FALSE

\* the test that makes a parsed line a continuation of the line before it
IsContinuationLevel(levelPart) == levelPart = ""

\* the log line with the parsed fields filled in
FilledLogLine(x, at) ==
    [ZeroLogLine EXCEPT
       !.OccurredAt = at.t,
       !.Username = Scrub(x.userPart),
       !.Database = Scrub(x.dbPart),
       !.Application = Scrub(x.appPart),
       !.BackendPid = Int32(Atoi(x.pidPart)),
       !.Content = x.contentPart]

\* the function from the time.Parse calls on: the pair (logLine, ok)
AfterExtraction(x, at) ==
    IF x.returned
    THEN [logLine |-> ZeroLogLine, ok |-> FALSE]
    ELSE IF at.err
    THEN [logLine |-> [ZeroLogLine EXCEPT !.Content = x.content,
                                          !.OccurredAt = at.t],
          ok |-> FALSE]
    ELSE IF IsContinuationLevel(x.levelPart)
    THEN [logLine |-> FilledLogLine(x, at), ok |-> FALSE]
    ELSE [logLine |-> [FilledLogLine(x, at) EXCEPT
                         !.LogLevel = MapLookup(LogLevel_value, x.levelPart)],
          ok |-> TRUE]

ParseExtracted(x) == AfterExtraction(x, ParseOccurredAt(x))

\* the extraction, given the outcome d of the detection
ExtractDetected(d, l) ==
    IF d.rsyslog THEN ExtractRsyslog(l) ELSE ExtractPrefix(d.prefix, l)

\* ParseLogLineWithPrefix(prefix, line): the pair (logLine, ok)
ParseLogLineWithPrefix(prefix, l) ==
    ParseExtracted(
        ExtractDetected(IF prefix = "" THEN DetectPrefix(l)
                        ELSE [prefix |-> prefix, rsyslog |-> FALSE], l))

(***************************************************************************)
(* The lines, tails and arguments the model draws its inputs from.         *)
(***************************************************************************)
\* a header of the minimal format, 2018-01-01 00:00:10, level LOG
HeaderLine ==
    Line("simple", "2018-01-01 00:00:10 +0000", "12", "", "", "", "", FALSE,
         "LOG", "  ", <<"a">>)
\* a header with nothing after its level: its content is empty, and its
\* time needs the alternative layout
HeaderLineEmptyContent ==
    Line("simple", "2018-01-01 00:00:20 UTC", "7", "", "", "", "", FALSE,
         "LOG", " ", <<>>)
\* a line that matches no grammar
RawLine == Line("raw", "", "", "", "", "", "", FALSE, "", "", <<"\tat x">>)
\* a line of the minimal format whose time has month 13
BadTimeLine ==
    Line("simple", "2018-13-01 00:00:30 UTC", "12", "", "", "", "", FALSE,
         "LOG", "  ", <<"c">>)
\* a line of the minimal format whose level name is not in the table
UnknownLevelLine ==
    Line("simple", "2018-01-01 00:00:10 +0000", "12", "", "", "", "", FALSE,
         "FOO", "  ", <<"d">>)
\* a syslog line without a level
SyslogContinuationLine ==
    Line("syslog", "Jan  1 00:00:40", "7", "", "", "", "db1", FALSE,
         "", "", <<"e", "#011", "f">>)

(***************************************************************************)
(* The arguments of ParseLogLineWithPrefix called on its own: a line of    *)
(* every shape, with pid, user, database and application lexemes drawn     *)
(* from small sets.                                                        *)
(***************************************************************************)
Shapes ==
    {"rds", "custom1", "custom2", "custom3", "custom4", "custom5", "custom6",
     "custom7", "simple", "syslog", "raw"}

\* the time lexeme of a line of the shape
TimeLexeme(shape) ==
    CASE shape = "syslog" -> "Jan  1 00:00:40"
      [] shape = "raw" -> ""
      [] OTHER -> "2018-01-01 00:00:10 +0000"

\* the lexeme in the place of %r, %v, %h, %e or %x of the shape
HostLexeme(shape) ==
    CASE shape = "rds" -> "10.0.0.1(5432)"
      [] shape = "custom1" -> "3/4"
      [] shape \in {"custom4", "custom6"} -> "10.0.0.1"
      [] shape = "custom5" -> "00000"
      [] shape = "custom7" -> "77"
      [] shape = "syslog" -> "db1"
      [] OTHER -> ""

\* the shapes with a %u and %d, and with a %a
HasUserAndDb(shape, q) ==
    \/ shape \in {"rds", "custom3", "custom4", "custom5", "custom6", "custom7"}
    \/ shape \in {"custom2", "syslog"} /\ q

HasApp(shape, q) ==
    \/ shape \in {"custom3", "custom4", "custom6"}
    \/ shape \in {"custom1", "syslog"} /\ q

\* the pid lexemes: all match (\d+)
PidLexemes == {"12", "2147483648", "4294967297", "99999999999999999999"}

\* the user, database and application lexemes: all match (\S*)
NameLexemes == {"alice", "[unknown]"}

\* the line of the shape made of the lexemes the shape uses
ShapedLine(shape, pid, user, db, app, q) ==
    IF shape = "raw"
    THEN RawLine
    ELSE Line(shape, TimeLexeme(shape), pid,
              IF HasUserAndDb(shape, q) THEN user ELSE "",
              IF HasUserAndDb(shape, q) THEN db ELSE "",
              IF HasApp(shape, q) THEN app ELSE "",
              HostLexeme(shape),
              q /\ shape \in {"custom1", "custom2", "syslog"},
              "LOG", "  ", <<"a">>)

\* lines of custom 3 whose time has month 13
BadTimeParseLines ==
    {Line("custom3", "2018-13-01 00:00:30 UTC", "12", user, db, app, "",
          FALSE, "LOG", "  ", <<"a">>) :
       user \in NameLexemes, db \in NameLexemes, app \in NameLexemes}

ParseLines ==
    {ShapedLine(shape, pid, user, db, app, q) :
       shape \in Shapes, pid \in PidLexemes, user \in NameLexemes,
       db \in NameLexemes, app \in NameLexemes, q \in BOOLEAN}
      \cup BadTimeParseLines

\* the prefix arguments: none, the prefixes of the switch, and one it lacks
PrefixArguments ==
    {LogPrefixEmpty, LogPrefixAmazonRds, LogPrefixCustom1, LogPrefixCustom2,
     LogPrefixCustom3, LogPrefixCustom4, LogPrefixCustom5, LogPrefixCustom6,
     LogPrefixCustom7, LogPrefixSimple, "%p "}

\* a line of the wrapped-debug format with a SQLSTATE and a level
HerokuHeaderLine ==
    Line("heroku", "", "", "", "", "", "DATABASE", TRUE, "LOG", "", <<"b">>)
\* a line of the wrapped-debug format without them
HerokuContinuationLine ==
    Line("heroku", "", "", "", "", "", "DATABASE", FALSE, "", "", <<"c">>)

\* The lines of the model.  A buffer holds its lines by name; LineOf gives
\* the line a name stands for.
LineCatalog ==
    {"Header", "HeaderEmptyContent", "Raw", "BadTime", "UnknownLevel",
     "SyslogContinuation"}

\* the lines of the buffers of the debug scan
DebugCatalog ==
    {"Header", "Raw", "BadTime", "HerokuHeader", "HerokuContinuation"}

LineNames == LineCatalog \cup DebugCatalog

LineOf(name) ==
    CASE name = "Header" -> HeaderLine
      [] name = "HeaderEmptyContent" -> HeaderLineEmptyContent
      [] name = "Raw" -> RawLine
      [] name = "BadTime" -> BadTimeLine
      [] name = "UnknownLevel" -> UnknownLevelLine
      [] name = "SyslogContinuation" -> SyslogContinuationLine
      [] name = "HerokuHeader" -> HerokuHeaderLine
      [] name = "HerokuContinuation" -> HerokuContinuationLine

\* a function over the lines of the model as a table, each entry computed
\* once
Tabulated(f) ==
    [Header |-> f["Header"],
     HeaderEmptyContent |-> f["HeaderEmptyContent"],
     Raw |-> f["Raw"],
     BadTime |-> f["BadTime"],
     UnknownLevel |-> f["UnknownLevel"],
     SyslogContinuation |-> f["SyslogContinuation"],
     HerokuHeader |-> f["HerokuHeader"],
     HerokuContinuation |-> f["HerokuContinuation"]]

\* what may follow the last newline of a buffer: nothing, or the start of a
\* line that has not been written out yet
Tails == {"", "2018-01-0"}

\* the stream starts at an offset other than 0, the value the offsets of a
\* record have before they are set
InitialOffsets == {100}

\* the zero time disables the cutoff: no time is before it
Cutoffs == {ZeroTime, 20}

(***************************************************************************)
(* ParseAndAnalyzeBuffer.  The stream is scanned three times: as a whole,  *)
(* and as two pieces, A (its first `split` lines) and B (the rest), the    *)
(* call on B starting at the offset the call on A returned.                *)
(***************************************************************************)
VARIABLES
    stream,             \* the newline-terminated lines of the log stream,
                        \* by name
    tail,               \* the text after the last newline of the stream
    streamStart,        \* the offset of the first byte of the stream
    initialByteStart,   \* the offset the running call was given
    linesNewerThan,     \* the cutoff
    call,               \* the call that is running: "whole", "A" or "B"
    split,              \* the number of lines of piece A
    pc,                 \* "loop", "analyze" (the loop has ended) or "done"
    rest,               \* reader: the terminated lines not yet read
    restTail,           \* reader: the text after them
    consumed,           \* the lines ReadString has returned without error
    currentByteStart,
    logLines,
    uuids,              \* the number of identifiers uuid.NewV4 has made
    analyzerCalls,      \* the arguments of the calls of AnalyzeLogLines the
                        \* running call has made
    returned            \* what each call has returned

\* ParseLogLineWithPrefix called on its own
VARIABLES
    argPrefix,          \* the prefix argument
    argLine,            \* the line argument, lexed
    parseResult         \* (logLine, ok) once the call has returned

scanVars == <<stream, tail, streamStart, initialByteStart, linesNewerThan, call, split, pc,
              rest, restTail, consumed, currentByteStart, logLines, uuids,
              analyzerCalls, returned>>

parseVars == <<argPrefix, argLine, parseResult>>

\* CollectActivityFromAllServers: one call, its goroutines and the servers
VARIABLES
    servers,              \* the servers argument: the server of each slot,
                          \* by name
    serverId,             \* the server each slot points to, named by the
                          \* first slot that points to it
    globalCollectionOpts,
    mainPc,               \* the caller: "idle", "loop", "waited", "returned"
    idx,                  \* the loop variable
    wg,                   \* the counter of the WaitGroup
    goPc,                 \* where the goroutine of each slot is
    goLocal,              \* newState, success, err of each goroutine
    ActivityStateMutex,   \* of each server: locked or not
    ActivityPrevState,    \* of each server
    allSuccessful,        \* the named result, as memory holds it
    storeBuffer,          \* goroutines whose unsynchronised write of
                          \* allSuccessful has not reached memory yet
    callbacks,            \* the completion callbacks started
    activityResult        \* what the call has returned

activityVars == <<servers, serverId, globalCollectionOpts, mainPc, idx, wg, goPc, goLocal, ActivityStateMutex, ActivityPrevState, allSuccessful, storeBuffer, callbacks, activityResult>>

vars == <<scanVars, parseVars, activityVars>>

NumServers == 2

Slots == 1 .. NumServers

\* the fields of a server that CollectActivityFromAllServers reads
Server(disable, valid, enable, successCb, errorCb) ==
    [DisableActivity |-> disable, GrantValid |-> valid,
     GrantEnableActivity |-> enable,
     SuccessCallback |-> successCb, ErrorCallback |-> errorCb]

ServerCatalog == {"off", "denied", "stale", "hooked"}

ServerOf(name) ==
    CASE name = "off"    -> Server(TRUE, TRUE, TRUE, "ok.sh", "fail.sh")
      [] name = "denied" -> Server(FALSE, TRUE, FALSE, "ok.sh", "fail.sh")
      [] name = "stale"  -> Server(FALSE, FALSE, FALSE, "", "")
      [] name = "hooked" -> Server(FALSE, TRUE, TRUE, "ok.sh", "fail.sh")

\* the nil error
Nil == "nil"

\* state.PersistedActivityState
ZeroActivityState == [ActivitySnapshotAt |-> ZeroTime]

NoLocal == [newState |-> ZeroActivityState, success |-> FALSE, err |-> Nil]

\* no call of CollectActivityFromAllServers is under way
ActivityIdle ==
    /\ servers = [i \in Slots |-> "off"]
    /\ serverId = [i \in Slots |-> i]
    /\ globalCollectionOpts = [ForceEmptyGrant |-> FALSE]
    /\ mainPc = "idle"
    /\ idx = 0
    /\ wg = 0
    /\ goPc = [i \in Slots |-> "none"]
    /\ goLocal = [i \in Slots |-> NoLocal]
    /\ ActivityStateMutex = [i \in Slots |-> FALSE]
    /\ ActivityPrevState = [i \in Slots |-> ZeroActivityState]
    /\ allSuccessful = TRUE
    /\ storeBuffer = {}
    /\ callbacks = {}
    /\ activityResult = "none"

NotCalled == [called |-> FALSE, logLine |-> ZeroLogLine, ok |-> FALSE]

\* no call of ParseLogLineWithPrefix on its own is under way
ParseIdle ==
    /\ argPrefix = ""
    /\ argLine = RawLine
    /\ parseResult = NotCalled

\* what a step of a buffer scan leaves unchanged outside the scan
OutsideScan == UNCHANGED <<parseVars, activityVars>>

NoResult == [done |-> FALSE, logLines |-> <<>>, samples |-> <<>>, offset |-> 0]

\* the calls of the model: ParseAndAnalyzeBuffer on the whole stream and on
\* its two pieces, and DebugParseAndAnalyzeBuffer
Calls == {"whole", "A", "B", "debug"}

Streams == UNION {[1 .. n -> LineCatalog] : n \in 0 .. MaxLines}

Init ==
    /\ stream \in Streams
    /\ tail \in Tails
    /\ streamStart \in InitialOffsets
    /\ initialByteStart = streamStart
    /\ linesNewerThan \in Cutoffs
    /\ call = "whole"
    /\ split = 0
    /\ pc = "loop"
    /\ rest = stream
    /\ restTail = tail
    /\ consumed = <<>>
    /\ currentByteStart = streamStart
    /\ logLines = <<>>
    /\ uuids = 0
    /\ analyzerCalls = <<>>
    /\ returned = [c \in Calls |-> NoResult]
    /\ ParseIdle
    /\ ActivityIdle

\* the bytes of each line of the model
textOf == Tabulated([l \in LineNames |-> Text(LineOf(l))])

\* ParseLogLineWithPrefix("", line) for each line of the model
parsedOf ==
    Tabulated([l \in LineNames |-> ParseLogLineWithPrefix("", LineOf(l))])

\* the advance with the line's last byte left out
AdvanceOffsetShort(offset, line) == offset + Len(line) - 1

\* currentByteStart += int64(len(line))
AdvanceOffset(offset, line) == offset + Len(line)

\* the guard of the continuation merge
ContinuationApplies(lines, logLine) == Len(lines) > 0 /\ logLine.Content # ""

\* the merge with the content put in front of the record's content
MergeContinuationInFront(lines, logLine) ==
    [lines EXCEPT ![Len(lines)] =
       [@ EXCEPT !.Content = logLine.Content \o @,
                 !.ByteEnd = @ + Len(logLine.Content)]]

\* the merge with the end moved by the length of the whole new content
MergeContinuationWholeLength(lines, logLine) ==
    [lines EXCEPT ![Len(lines)] =
       [@ EXCEPT !.Content = @ \o logLine.Content,
                 !.ByteEnd = @ + Len(lines[Len(lines)].Content)
                               + Len(logLine.Content)]]

\* the merge with the record replaced by the failed line's, contents joined
MergeContinuationWholeRecord(lines, logLine) ==
    [lines EXCEPT ![Len(lines)] =
       [logLine EXCEPT !.Content = lines[Len(lines)].Content \o @,
                       !.ByteEnd = lines[Len(lines)].ByteEnd
                                     + Len(logLine.Content)]]

\* the continuation merge: the content is appended to the last record
MergeContinuation(lines, logLine) ==
    [lines EXCEPT ![Len(lines)] =
       [@ EXCEPT !.Content = @ \o logLine.Content,
                 !.ByteEnd = @ + Len(logLine.Content)]]

\* the failure branch with a line that has no record to go to kept as a
\* record of its own
StitchOrAppend(lines, logLine) ==
    IF ContinuationApplies(lines, logLine)
    THEN MergeContinuation(lines, logLine)
    ELSE IF logLine.Content # "" THEN Append(lines, logLine) ELSE lines

\* what the failure branch of the loop does to the records
Stitch(lines, logLine) ==
    IF ContinuationApplies(lines, logLine)
    THEN MergeContinuation(lines, logLine)
    ELSE lines

\* the test with the cutoff itself counted as old
BeforeOrAt(t, u) == t <= u

\* logLine.OccurredAt.Before(linesNewerThan)
Before(t, u) == t < u

\* the stamp with offsets counted from the start of the buffer instead of
\* the start of the stream
StampRelative(logLine, byteStart, line, uuid) ==
    [logLine EXCEPT
       !.ByteStart = byteStart - initialByteStart,
       !.ByteContentStart =
          byteStart - initialByteStart + (Len(line) - Len(logLine.Content)),
       !.ByteEnd = byteStart - initialByteStart + Len(line) - 1,
       !.UUID = uuid]

\* the stamp with the content start one byte late
StampContentStartLate(logLine, byteStart, line, uuid) ==
    [logLine EXCEPT
       !.ByteStart = byteStart,
       !.ByteContentStart = byteStart + (Len(line) - Len(logLine.Content)) + 1,
       !.ByteEnd = byteStart + Len(line) - 1,
       !.UUID = uuid]

\* the offsets and the identifier of a record that is about to be appended
Stamp(logLine, byteStart, line, uuid) ==
    [logLine EXCEPT
       !.ByteStart = byteStart,
       !.ByteContentStart = byteStart + (Len(line) - Len(logLine.Content)),
       !.ByteEnd = byteStart + Len(line) - 1,
       !.UUID = uuid]

\* AnalyzeLogLines: the analysis collaborator, which here hands the records
\* back as they are and derives no samples
AnalyzeLogLines(lines) == [logLines |-> lines, samples |-> <<>>]

\* what one iteration of the loop leaves unchanged
LoopFrame ==
    /\ UNCHANGED <<stream, tail, streamStart, initialByteStart,
                   linesNewerThan, call, split, analyzerCalls, returned>>
    /\ OutsideScan

\* ReadString returns a line and no error
ReadsLine ==
    /\ pc = "loop"
    /\ rest # <<>>
    /\ rest' = Tail(rest)
    /\ consumed' = Append(consumed, Head(rest))
    /\ currentByteStart' = AdvanceOffset(currentByteStart, textOf[Head(rest)])
    /\ UNCHANGED <<restTail, pc>>
    /\ LoopFrame

\* an iteration whose line does not parse: merged into the last record, or
\* dropped
ScanContinuation ==
    /\ ReadsLine
    /\ ~parsedOf[Head(rest)].ok
    /\ logLines' = Stitch(logLines, parsedOf[Head(rest)].logLine)
    /\ UNCHANGED uuids

\* an iteration whose line parses and is older than the cutoff
ScanDiscardOld ==
    /\ ReadsLine
    /\ parsedOf[Head(rest)].ok
    /\ Before(parsedOf[Head(rest)].logLine.OccurredAt, linesNewerThan)
    /\ UNCHANGED <<logLines, uuids>>

\* an iteration whose line parses and is appended
ScanAppend ==
    /\ ReadsLine
    /\ parsedOf[Head(rest)].ok
    /\ ~Before(parsedOf[Head(rest)].logLine.OccurredAt, linesNewerThan)
    /\ logLines' = Append(logLines,
                          Stamp(parsedOf[Head(rest)].logLine, currentByteStart,
                                textOf[Head(rest)], uuids + 1))
    /\ uuids' = uuids + 1

\* the end of the loop with the error test before the advance: the text
\* after the last newline is not counted
ScanEOFTailUnconsumed ==
    /\ pc = "loop"
    /\ rest = <<>>
    /\ restTail' = ""
    /\ pc' = "analyze"
    /\ UNCHANGED <<rest, consumed, currentByteStart, logLines, uuids>>
    /\ LoopFrame

\* ReadString returns io.EOF with the text after the last newline: the
\* offset advances and the loop ends
ScanEOF ==
    /\ pc = "loop"
    /\ rest = <<>>
    /\ currentByteStart' = AdvanceOffset(currentByteStart, restTail)
    /\ restTail' = ""
    /\ pc' = "analyze"
    /\ UNCHANGED <<rest, consumed, logLines, uuids>>
    /\ LoopFrame

\* what the return statement leaves unchanged
ReturnFrame ==
    /\ UNCHANGED <<stream, tail, streamStart, initialByteStart,
                   linesNewerThan, call, split, rest, restTail, consumed,
                   currentByteStart, logLines, uuids>>
    /\ OutsideScan

\* the return of the records as they are, with no call of AnalyzeLogLines
ReturnWithoutAnalysis ==
    /\ pc = "analyze"
    /\ returned' = [returned EXCEPT ![call] =
                       [done |-> TRUE, logLines |-> logLines,
                        samples |-> <<>>, offset |-> currentByteStart]]
    /\ pc' = "done"
    /\ UNCHANGED analyzerCalls
    /\ ReturnFrame

\* the call of AnalyzeLogLines and the return
AnalyzeAndReturn ==
    /\ pc = "analyze"
    /\ analyzerCalls' = Append(analyzerCalls, logLines)
    /\ LET a == AnalyzeLogLines(logLines)
       IN  returned' = [returned EXCEPT ![call] =
                          [done |-> TRUE, logLines |-> a.logLines,
                           samples |-> a.samples, offset |-> currentByteStart]]
    /\ pc' = "done"
    /\ ReturnFrame

\* the state a call starts in
StartCall(name, lines, text, offset) ==
    /\ call' = name
    /\ pc' = "loop"
    /\ rest' = lines
    /\ restTail' = text
    /\ consumed' = <<>>
    /\ initialByteStart' = offset
    /\ currentByteStart' = offset
    /\ logLines' = <<>>
    /\ analyzerCalls' = <<>>
    /\ UNCHANGED <<stream, tail, streamStart, linesNewerThan, uuids,
                   returned>>
    /\ OutsideScan

\* after the call on the whole stream: the call on its first k lines
CallOnA ==
    /\ call = "whole" /\ pc = "done"
    /\ \E k \in 0 .. Len(stream) :
         /\ split' = k
         /\ StartCall("A", SubSeq(stream, 1, k), "", streamStart)

\* then the call on the rest, from the offset the call on A returned
CallOnB ==
    /\ call = "A" /\ pc = "done"
    /\ split' = split
    /\ StartCall("B", SubSeq(stream, split + 1, Len(stream)), tail,
                 returned["A"].offset)

Next ==
    \/ ScanContinuation
    \/ ScanDiscardOld
    \/ ScanAppend
    \/ ScanEOF
    \/ AnalyzeAndReturn
    \/ CallOnA
    \/ CallOnB

Spec == Init /\ [][Next]_vars

\* the function is sequential code over a finite buffer: a step that can be
\* taken is taken
LiveSpec == Spec /\ WF_vars(Next)

(***************************************************************************)
(* ParseLogLineWithPrefix called on its own, once, on arguments drawn from *)
(* PrefixArguments and ParseLines.                                         *)
(***************************************************************************)
\* no buffer scan is under way
ScanIdle ==
    /\ stream = <<>> /\ tail = "" /\ streamStart = 0
    /\ initialByteStart = 0 /\ linesNewerThan = ZeroTime
    /\ call = "none" /\ split = 0 /\ pc = "idle"
    /\ rest = <<>> /\ restTail = "" /\ consumed = <<>>
    /\ currentByteStart = 0 /\ logLines = <<>> /\ uuids = 0
    /\ analyzerCalls = <<>>
    /\ returned = [c \in Calls |-> NoResult]

ParseInit ==
    /\ argPrefix \in PrefixArguments
    /\ argLine \in ParseLines
    /\ parseResult = NotCalled
    /\ ScanIdle
    /\ ActivityIdle

\* the call and its return
ParseCall ==
    /\ ~parseResult.called
    /\ LET r == ParseLogLineWithPrefix(argPrefix, argLine)
       IN  parseResult' = [called |-> TRUE, logLine |-> r.logLine, ok |-> r.ok]
    /\ UNCHANGED <<argPrefix, argLine, scanVars, activityVars>>

ParseNext == ParseCall

ParseSpec == ParseInit /\ [][ParseNext]_vars

(***************************************************************************)
(* DebugParseAndAnalyzeBuffer: the scan that tries the wrapped-debug       *)
(* format first.  It starts at offset 0 and has no cutoff.  An index out   *)
(* of range is a run-time panic: the scan stops there (pc = "panic").      *)
(***************************************************************************)
DebugStreams == UNION {[1 .. n -> DebugCatalog] : n \in 0 .. MaxLines}

DebugInit ==
    /\ stream \in DebugStreams
    /\ tail \in Tails
    /\ streamStart = 0
    /\ initialByteStart = 0
    /\ linesNewerThan = ZeroTime
    /\ call = "debug"
    /\ split = 0
    /\ pc = "loop"
    /\ rest = stream
    /\ restTail = tail
    /\ consumed = <<>>
    /\ currentByteStart = 0
    /\ logLines = <<>>
    /\ uuids = 0
    /\ analyzerCalls = <<>>
    /\ returned = [c \in Calls |-> NoResult]
    /\ ParseIdle
    /\ ActivityIdle

\* HerokuPostgresDebugRegexp.FindStringSubmatch(line) for each line
contentPartsOf ==
    Tabulated([l \in LineNames |-> HerokuPostgresDebugRegexp(LineOf(l))])

\* len(contentParts) == 7
IsHeroku(name) == PartsLen(contentPartsOf[name]) = 7

\* contentParts[4] != "" && contentParts[5] != ""
HasSqlstateAndLevel(name) ==
    contentPartsOf[name][4] # "" /\ contentPartsOf[name][5] # ""

\* the outer logLine of the loop body after the wrapped-debug branch
HerokuLogLine(name) ==
    [ZeroLogLine EXCEPT
       !.Content = contentPartsOf[name][6],
       !.LogLevel = MapLookup(LogLevel_value, contentPartsOf[name][5])]

\* an iteration on a wrapped-debug line with SQLSTATE and level: appended
DebugHerokuAppend ==
    /\ ReadsLine
    /\ IsHeroku(Head(rest)) /\ HasSqlstateAndLevel(Head(rest))
    /\ logLines' = Append(logLines,
                          Stamp(HerokuLogLine(Head(rest)), currentByteStart,
                                textOf[Head(rest)], uuids + 1))
    /\ uuids' = uuids + 1

\* an iteration on a wrapped-debug line without them, with a record to
\* merge it into
DebugHerokuMerge ==
    /\ ReadsLine
    /\ IsHeroku(Head(rest)) /\ ~HasSqlstateAndLevel(Head(rest))
    /\ Len(logLines) > 0
    /\ logLines' = MergeContinuation(logLines,
                                     [ZeroLogLine EXCEPT
                                        !.Content = contentPartsOf[Head(rest)][6]])
    /\ UNCHANGED uuids

\* the same with no record yet: logLines[len(logLines)-1] is out of range
DebugHerokuPanic ==
    /\ pc = "loop"
    /\ rest # <<>>
    /\ IsHeroku(Head(rest)) /\ ~HasSqlstateAndLevel(Head(rest))
    /\ Len(logLines) = 0
    /\ rest' = Tail(rest)
    /\ consumed' = Append(consumed, Head(rest))
    /\ currentByteStart' = AdvanceOffset(currentByteStart, textOf[Head(rest)])
    /\ pc' = "panic"
    /\ UNCHANGED <<restTail, logLines, uuids>>
    /\ LoopFrame

\* an iteration on another line that fails to parse: merged or dropped
DebugContinuation ==
    /\ ReadsLine
    /\ ~IsHeroku(Head(rest))
    /\ ~parsedOf[Head(rest)].ok
    /\ logLines' = Stitch(logLines, parsedOf[Head(rest)].logLine)
    /\ UNCHANGED uuids

\* An iteration on another line that parses.  The result of
\* ParseLogLineWithPrefix is assigned with := inside the else block, to a
\* logLine of that block: the logLine of the loop body, which is stamped
\* and appended, still holds its zero value.
DebugAppend ==
    /\ ReadsLine
    /\ ~IsHeroku(Head(rest))
    /\ parsedOf[Head(rest)].ok
    /\ logLines' = Append(logLines,
                          Stamp(ZeroLogLine, currentByteStart,
                                textOf[Head(rest)], uuids + 1))
    /\ uuids' = uuids + 1

\* the call of AnalyzeLogLines and the return of its two results
DebugAnalyzeAndReturn ==
    /\ pc = "analyze"
    /\ analyzerCalls' = Append(analyzerCalls, logLines)
    /\ LET a == AnalyzeLogLines(logLines)
       IN  returned' = [returned EXCEPT ![call] =
                          [done |-> TRUE, logLines |-> a.logLines,
                           samples |-> a.samples, offset |-> 0]]
    /\ pc' = "done"
    /\ ReturnFrame

DebugNext ==
    \/ DebugHerokuAppend
    \/ DebugHerokuMerge
    \/ DebugHerokuPanic
    \/ DebugContinuation
    \/ DebugAppend
    \/ ScanEOF
    \/ DebugAnalyzeAndReturn

DebugSpec == DebugInit /\ [][DebugNext]_vars

(***************************************************************************)
(* CollectActivityFromAllServers.  The caller starts one goroutine for     *)
(* each server it does not skip and waits for them.  The goroutines write  *)
(* allSuccessful without synchronisation between them: such a write        *)
(* reaches memory at some moment between the statement and the next        *)
(* synchronising operation of its goroutine (wg.Done).  The calls of       *)
(* processActivityForServer into the grant, the database and the output    *)
(* are answered by the environment.  The TestRun option only changes what  *)
(* is logged and is left out, as is the logger.                            *)
(***************************************************************************)
\* the collection time, time.Now()
TimeNow == 1

\* what the calls made by processActivityForServer return
Environments ==
    [grantErr : BOOLEAN, EnableActivity : BOOLEAN, connectionErr : BOOLEAN,
     versionErr : BOOLEAN, tooOld : BOOLEAN, backendsErr : BOOLEAN,
     vacuumsErr : BOOLEAN, submitErr : BOOLEAN]

Failed(prevState, message) ==
    [newState |-> prevState, success |-> FALSE, err |-> message]

processActivityForServer(prevState, forceEmptyGrant, e) ==
    IF ~forceEmptyGrant /\ e.grantErr
    THEN Failed(prevState, "could not get default grant for activity snapshot")
    ELSE IF ~forceEmptyGrant /\ ~e.EnableActivity
    THEN [newState |-> prevState, success |-> FALSE, err |-> Nil]
    ELSE IF e.connectionErr
    THEN Failed(prevState, "failed to connect to database")
    ELSE IF e.versionErr
    THEN Failed(prevState, "error collecting postgres version")
    ELSE IF e.tooOld
    THEN Failed(prevState, "Error: Your PostgreSQL server version is too old")
    ELSE IF e.backendsErr
    THEN Failed(prevState, "error collecting pg_stat_activity")
    ELSE IF e.vacuumsErr
    THEN Failed(prevState, "error collecting pg_stat_vacuum_progress")
    ELSE IF e.submitErr
    THEN Failed(prevState, "failed to upload/send activity snapshot")
    ELSE [newState |-> [prevState EXCEPT !.ActivitySnapshotAt = TimeNow],
          success |-> TRUE, err |-> Nil]

\* what the call can return, over the answers of the environment
Results(prevState, forceEmptyGrant) ==
    {processActivityForServer(prevState, forceEmptyGrant, e) : e \in Environments}

\* the values server.ActivityPrevState takes
ActivityStates == {ZeroActivityState, [ActivitySnapshotAt |-> TimeNow]}

resultsOf ==
    [prevState \in ActivityStates |-> [forceEmptyGrant \in BOOLEAN |-> Results(prevState, forceEmptyGrant)]]

\* the test of the loop that makes it continue without a goroutine
Skipped(name) ==
    \/ ServerOf(name).DisableActivity
    \/ ServerOf(name).GrantValid /\ ~ServerOf(name).GrantEnableActivity

\* The servers argument is a slice of pointers: two slots may point to the
\* same server, whose goroutines then overlap on it.
Pointers ==
    {p \in [Slots -> Slots] : \A i \in Slots : p[i] <= i /\ p[p[i]] = p[i]}

ActivityInit ==
    /\ servers \in [Slots -> ServerCatalog]
    /\ serverId \in Pointers
    /\ \A i \in Slots : servers[i] = servers[serverId[i]]
    /\ globalCollectionOpts \in [ForceEmptyGrant : BOOLEAN]
    /\ mainPc = "loop"
    /\ idx = 1
    /\ wg = 0
    /\ goPc = [i \in Slots |-> "none"]
    /\ goLocal = [i \in Slots |-> NoLocal]
    /\ ActivityStateMutex = [i \in Slots |-> FALSE]
    /\ ActivityPrevState = [i \in Slots |-> ZeroActivityState]
    /\ allSuccessful = TRUE
    /\ storeBuffer = {}
    /\ callbacks = {}
    /\ activityResult = "none"
    /\ ScanIdle
    /\ ParseIdle

\* what a step of the activity collection leaves unchanged outside it
OutsideActivity == UNCHANGED <<scanVars, parseVars, servers, serverId, globalCollectionOpts>>

\* an iteration of the loop on a server that is skipped
MainSkip ==
    /\ mainPc = "loop"
    /\ idx \in Slots
    /\ Skipped(servers[idx])
    /\ idx' = idx + 1
    /\ UNCHANGED <<mainPc, wg, goPc, goLocal, ActivityStateMutex, ActivityPrevState, allSuccessful, storeBuffer, callbacks, activityResult>>
    /\ OutsideActivity

\* an iteration on another server: wg.Add(1) and the go statement
MainGo ==
    /\ mainPc = "loop"
    /\ idx \in Slots
    /\ ~Skipped(servers[idx])
    /\ wg' = wg + 1
    /\ goPc' = [goPc EXCEPT ![idx] = "start"]
    /\ idx' = idx + 1
    /\ UNCHANGED <<mainPc, goLocal, ActivityStateMutex, ActivityPrevState, allSuccessful, storeBuffer, callbacks, activityResult>>
    /\ OutsideActivity

\* a mutant: the caller goes on without waiting for the counter
WaitWithoutBlocking ==
    /\ mainPc = "loop"
    /\ idx \notin Slots
    /\ mainPc' = "waited"
    /\ UNCHANGED <<idx, wg, goPc, goLocal, ActivityStateMutex, ActivityPrevState, allSuccessful, storeBuffer, callbacks, activityResult>>
    /\ OutsideActivity

\* wg.Wait() after the loop: returns when the counter is zero
Wait ==
    /\ mainPc = "loop"
    /\ idx \notin Slots
    /\ wg = 0
    /\ mainPc' = "waited"
    /\ UNCHANGED <<idx, wg, goPc, goLocal, ActivityStateMutex, ActivityPrevState, allSuccessful, storeBuffer, callbacks, activityResult>>
    /\ OutsideActivity

\* the return of the named result
MainReturn ==
    /\ mainPc = "waited"
    /\ activityResult' = allSuccessful
    /\ mainPc' = "returned"
    /\ UNCHANGED <<idx, wg, goPc, goLocal, ActivityStateMutex, ActivityPrevState, allSuccessful, storeBuffer, callbacks>>
    /\ OutsideActivity

\* what a step of a goroutine leaves unchanged in the caller
GoFrame == UNCHANGED <<mainPc, idx, activityResult>> /\ OutsideActivity

\* server.ActivityStateMutex.Lock(), which blocks while the mutex is locked
GoLock(g) ==
    /\ goPc[g] = "start"
    /\ ~ActivityStateMutex[serverId[g]]
    /\ ActivityStateMutex' = [ActivityStateMutex EXCEPT ![serverId[g]] = TRUE]
    /\ goPc' = [goPc EXCEPT ![g] = "locked"]
    /\ UNCHANGED <<wg, goLocal, ActivityPrevState, allSuccessful, storeBuffer, callbacks>>
    /\ GoFrame

\* the call of processActivityForServer and the assignment of its results
GoProcess(g) ==
    /\ goPc[g] = "locked"
    /\ \E r \in resultsOf[ActivityPrevState[serverId[g]]][globalCollectionOpts.ForceEmptyGrant] :
         goLocal' = [goLocal EXCEPT ![g] = r]
    /\ goPc' = [goPc EXCEPT ![g] = "returned"]
    /\ UNCHANGED <<wg, ActivityStateMutex, ActivityPrevState, allSuccessful, storeBuffer, callbacks>>
    /\ GoFrame

\* a mutant: the error path goes on without Unlock
GoErrorKeepsLock(g) ==
    /\ goPc[g] = "returned"
    /\ goLocal[g].err # Nil
    /\ goPc' = [goPc EXCEPT ![g] = "failed"]
    /\ UNCHANGED <<wg, goLocal, ActivityStateMutex, ActivityPrevState, allSuccessful, storeBuffer, callbacks>>
    /\ GoFrame

\* err != nil: Unlock
GoUnlockOnError(g) ==
    /\ goPc[g] = "returned"
    /\ goLocal[g].err # Nil
    /\ ActivityStateMutex' = [ActivityStateMutex EXCEPT ![serverId[g]] = FALSE]
    /\ goPc' = [goPc EXCEPT ![g] = "failed"]
    /\ UNCHANGED <<wg, goLocal, ActivityPrevState, allSuccessful, storeBuffer, callbacks>>
    /\ GoFrame

\* an error that has been printed and handed to the error callback
Reported == "reported"

\* allSuccessful = false, the error is printed and the error callback, if
\* there is one, is started.  That is the last use of err: from here on the
\* goroutine is only known to have had an error.
GoReportError(g) ==
    /\ goPc[g] = "failed"
    /\ storeBuffer' = storeBuffer \cup {g}
    /\ callbacks' = IF ServerOf(servers[g]).ErrorCallback # ""
                    THEN callbacks \cup {[kind |-> "error", slot |-> g]}
                    ELSE callbacks
    /\ goPc' = [goPc EXCEPT ![g] = "done"]
    /\ goLocal' = [goLocal EXCEPT ![g].err = Reported]
    /\ UNCHANGED <<wg, ActivityStateMutex, ActivityPrevState, allSuccessful>>
    /\ GoFrame

\* the write of a goroutine reaches memory
StoreReachesMemory(g) ==
    /\ g \in storeBuffer
    /\ allSuccessful' = FALSE
    /\ storeBuffer' = storeBuffer \ {g}
    /\ UNCHANGED <<wg, goPc, goLocal, ActivityStateMutex, ActivityPrevState, callbacks>>
    /\ GoFrame

\* err == nil: server.ActivityPrevState = newState
GoStoreState(g) ==
    /\ goPc[g] = "returned"
    /\ goLocal[g].err = Nil
    /\ ActivityPrevState' = [ActivityPrevState EXCEPT ![serverId[g]] = goLocal[g].newState]
    /\ goPc' = [goPc EXCEPT ![g] = "stored"]
    /\ UNCHANGED <<wg, goLocal, ActivityStateMutex, allSuccessful, storeBuffer, callbacks>>
    /\ GoFrame

\* Unlock on that path
GoUnlock(g) ==
    /\ goPc[g] = "stored"
    /\ ActivityStateMutex' = [ActivityStateMutex EXCEPT ![serverId[g]] = FALSE]
    /\ goPc' = [goPc EXCEPT ![g] = "unlocked"]
    /\ UNCHANGED <<wg, goLocal, ActivityPrevState, allSuccessful, storeBuffer, callbacks>>
    /\ GoFrame

\* a mutant: the success callback is started whenever there is one
GoSuccessCallbackAlways(g) ==
    /\ goPc[g] = "unlocked"
    /\ callbacks' = IF ServerOf(servers[g]).SuccessCallback # ""
                    THEN callbacks \cup {[kind |-> "success", slot |-> g]}
                    ELSE callbacks
    /\ goPc' = [goPc EXCEPT ![g] = "done"]
    /\ UNCHANGED <<wg, goLocal, ActivityStateMutex, ActivityPrevState, allSuccessful, storeBuffer>>
    /\ GoFrame

\* the success callback is started if success holds and there is one
GoSuccessCallback(g) ==
    /\ goPc[g] = "unlocked"
    /\ callbacks' = IF goLocal[g].success /\ ServerOf(servers[g]).SuccessCallback # ""
                    THEN callbacks \cup {[kind |-> "success", slot |-> g]}
                    ELSE callbacks
    /\ goPc' = [goPc EXCEPT ![g] = "done"]
    /\ UNCHANGED <<wg, goLocal, ActivityStateMutex, ActivityPrevState, allSuccessful, storeBuffer>>
    /\ GoFrame

\* wg.Done(): the writes of the goroutine are in memory before the counter
\* is seen to drop
GoDone(g) ==
    /\ goPc[g] = "done"
    /\ allSuccessful' = IF g \in storeBuffer THEN FALSE ELSE allSuccessful
    /\ storeBuffer' = storeBuffer \ {g}
    /\ wg' = wg - 1
    /\ goPc' = [goPc EXCEPT ![g] = "finished"]
    /\ UNCHANGED <<goLocal, ActivityStateMutex, ActivityPrevState, callbacks>>
    /\ GoFrame

ActivityNext ==
    \/ MainSkip
    \/ MainGo
    \/ Wait
    \/ MainReturn
    \/ \E g \in Slots : GoLock(g)
    \/ \E g \in Slots : GoProcess(g)
    \/ \E g \in Slots : GoUnlockOnError(g)
    \/ \E g \in Slots : GoReportError(g)
    \/ \E g \in Slots : StoreReachesMemory(g)
    \/ \E g \in Slots : GoStoreState(g)
    \/ \E g \in Slots : GoUnlock(g)
    \/ \E g \in Slots : GoSuccessCallback(g)
    \/ \E g \in Slots : GoDone(g)

ActivitySpec == ActivityInit /\ [][ActivityNext]_vars

(***************************************************************************)
(* Properties of ParseAndAnalyzeBuffer.                                    *)
(***************************************************************************)
\* len(line) for each line of the model
lenOf == Tabulated([l \in LineNames |-> Len(textOf[l])])

RECURSIVE Bytes(_)
\* the number of bytes of a sequence of lines
Bytes(ls) == IF ls = <<>> THEN 0 ELSE lenOf[Head(ls)] + Bytes(Tail(ls))

\* the offset of the first byte of the i-th line the running call has read
StartOf(i) == initialByteStart + Bytes(SubSeq(consumed, 1, i - 1))

\* the buffer of the running call: its terminated lines and what follows
BufferLines ==
    CASE call = "whole" -> stream
      [] call = "A" -> SubSeq(stream, 1, split)
      [] OTHER -> SubSeq(stream, split + 1, Len(stream))

BufferTail == IF call = "A" THEN "" ELSE tail

\* the offset of the first byte after the last newline of the buffer
TailStart == initialByteStart + Bytes(BufferLines)

\* records with their identifiers left out
WithoutUUID(lines) == [i \in DOMAIN lines |-> [lines[i] EXCEPT !.UUID = 0]]

\* the calls on A and on B have returned, the cutoff is disabled and the
\* stream is made of newline-terminated lines only
SplitScanned ==
    /\ call = "B" /\ pc = "done"
    /\ linesNewerThan = ZeroTime
    /\ tail = ""

SplitEqualsWhole ==
    WithoutUUID(returned["A"].logLines \o returned["B"].logLines)
      = WithoutUUID(returned["whole"].logLines)

\* B begins with a continuation of a record of A: A yields a record, and a
\* line of B that fails to parse with a non-empty content comes before the
\* first line of B that parses
OrphanContinuation ==
    /\ returned["A"].logLines # <<>>
    /\ \E i \in split + 1 .. Len(stream) :
         /\ ~parsedOf[stream[i]].ok
         /\ parsedOf[stream[i]].logLine.Content # ""
         /\ \A j \in split + 1 .. i - 1 : ~parsedOf[stream[j]].ok

\* C1, as stated: for every split at a line boundary the outputs of the
\* calls on A and on B, concatenated, are the output of the call on A+B.
C1_RoundTrip == SplitScanned => SplitEqualsWhole

\* C1, amended: the same, for the splits where B does not begin with a
\* continuation of a record of A; where it does, the outputs differ.
C1_RoundTripWithoutOrphan ==
    SplitScanned => (SplitEqualsWhole <=> ~OrphanContinuation)

\* a split after the first of two records, the second with a continuation
C1_Witness ==
    /\ SplitScanned /\ ~OrphanContinuation
    /\ stream = <<"Header", "HeaderEmptyContent", "Raw">>
    /\ split = 1
    /\ Len(returned["A"].logLines) = 1
    /\ Len(returned["B"].logLines) = 1
    /\ returned["B"].logLines[1].ByteStart = returned["A"].offset

\* C2, as stated: with an unterminated tail, the returned offset is the
\* offset of the first byte of the tail (the tail is not counted).
C2_TailNotCounted ==
    (pc = "done" /\ BufferTail # "") => returned[call].offset = TailStart

\* C2, amended: with an unterminated tail, the tail gives no record and is
\* merged into none (every record ends before it), and its bytes are
\* counted: the returned offset is the offset of the first byte after it.
C2_TailCounted ==
    (pc = "done" /\ BufferTail # "") =>
        /\ returned[call].offset = TailStart + Len(BufferTail)
        /\ \A i \in DOMAIN returned[call].logLines :
             returned[call].logLines[i].ByteEnd < TailStart

C2_Witness ==
    /\ pc = "done" /\ call = "whole" /\ BufferTail # ""
    /\ Len(returned[call].logLines) = 2
    /\ returned[call].offset > TailStart

\* C3: the running offset has advanced by the length of every line read,
\* whatever became of the line, and the returned offset is the initial
\* offset plus the length of the whole buffer, tail included.
C3_OffsetCountsEveryByte ==
    /\ pc = "loop" => currentByteStart = initialByteStart + Bytes(consumed)
    /\ pc # "loop" =>
         currentByteStart = initialByteStart + Bytes(BufferLines) + Len(BufferTail)
    /\ pc = "done" =>
         returned[call].offset
           = initialByteStart + Bytes(BufferLines) + Len(BufferTail)

\* a buffer with an emitted line, a merged one, one older than the cutoff
\* and an unterminated tail has been scanned
C3_Witness ==
    /\ pc = "done" /\ call = "whole"
    /\ stream = <<"HeaderEmptyContent", "Raw", "Header">>
    /\ linesNewerThan = 20 /\ tail # ""
    /\ Len(returned[call].logLines) = 1
    /\ returned[call].offset = streamStart + Bytes(stream) + Len(tail)

\* the number of lines the running call has read
NumRead == Len(consumed)

\* the line parses and is not older than the cutoff: it is to be emitted
Emits(l) ==
    /\ parsedOf[l].ok
    /\ parsedOf[l].logLine.OccurredAt >= linesNewerThan

\* the lines that match none of the regular expressions
noGrammar ==
    Tabulated([l \in LineNames |->
                 DetectPrefix(LineOf(l)) = [prefix |-> "", rsyslog |-> FALSE]])

NoGrammar(l) == noGrammar[l]

\* the local variables of ParseLogLineWithPrefix("", l) after the extraction
extractedOf ==
    Tabulated([l \in LineNames |->
                 ExtractDetected(DetectPrefix(LineOf(l)), LineOf(l))])

ExtractedOf(l) == extractedOf[l]

\* the outcome of the time.Parse calls of ParseLogLineWithPrefix("", l)
occurredAtOf ==
    Tabulated([l \in LineNames |-> ParseOccurredAt(extractedOf[l])])

\* the line matches a regular expression and its time text fails to parse
TimestampFails(l) == ~NoGrammar(l) /\ occurredAtOf[l].err

RECURSIVE TextOfLines(_)
\* the bytes of a sequence of lines
TextOfLines(ls) ==
    IF ls = <<>> THEN "" ELSE textOf[Head(ls)] \o TextOfLines(Tail(ls))

\* the i-th line read has a record, and it is the last record
LastRecordIsOf(i) ==
    /\ logLines # <<>>
    /\ logLines[Len(logLines)].ByteStart = StartOf(i)

\* C4: once an emitted header has been followed by k >= 1 lines that match
\* no grammar, the header's record is still the last one, there are as many
\* records as emitted lines up to the header, the record's content is the
\* header's content followed by the k lines in order, and its byte_end is
\* the header's byte_end plus the lengths of the k lines.
C4_ContinuationMerge ==
    \A h \in 1 .. NumRead - 1 :
        ( /\ Emits(consumed[h])
          /\ \A j \in h + 1 .. NumRead : NoGrammar(consumed[j]) )
        => /\ LastRecordIsOf(h)
           /\ Len(logLines) = Cardinality({i \in 1 .. h : Emits(consumed[i])})
           /\ logLines[Len(logLines)].Content
                = parsedOf[consumed[h]].logLine.Content
                    \o TextOfLines(SubSeq(consumed, h + 1, NumRead))
           /\ logLines[Len(logLines)].ByteEnd
                = (StartOf(h) + Len(textOf[consumed[h]]) - 1)
                    + Bytes(SubSeq(consumed, h + 1, NumRead))

\* a header followed by two lines that match no grammar has been scanned
C4_Witness ==
    /\ consumed = <<"Header", "Raw", "Raw">>
    /\ Len(logLines) = 1
    /\ logLines[1].Content = "a\n\tat x\n\tat x\n"
    /\ logLines[1].ByteEnd = currentByteStart - 1

\* C5: the lines with a record are exactly the lines that parse and are not
\* strictly before the cutoff, one record each; no record (so no target of
\* a merge) is older than the cutoff; and the identifiers made are those of
\* the records.
C5_TimeFilter ==
    /\ \A i \in 1 .. NumRead :
         (parsedOf[consumed[i]].ok
            /\ ~(parsedOf[consumed[i]].logLine.OccurredAt < linesNewerThan))
         <=> (\E k \in DOMAIN logLines : logLines[k].ByteStart = StartOf(i))
    /\ Len(logLines) = Cardinality({i \in 1 .. NumRead : Emits(consumed[i])})
    /\ \A k \in DOMAIN logLines :
         /\ logLines[k].OccurredAt >= linesNewerThan
         /\ logLines[k].UUID = uuids - Len(logLines) + k

\* a line at the cutoff was kept, the older line after it was discarded, and
\* the unrecognized line after that went to the kept line's record
C5_Witness ==
    /\ linesNewerThan = 20
    /\ consumed = <<"HeaderEmptyContent", "Header", "Raw">>
    /\ Len(logLines) = 1
    /\ logLines[1].OccurredAt = 20
    /\ logLines[1].Content = textOf["Raw"]
    /\ uuids = 1

\* C6, as stated: a line that matches a grammar and whose time text does
\* not parse, read right after an emitted line, is appended to that line's
\* record: the record's content grows and its byte_end moves to the end of
\* the appended line.
C6_TimestampFailureMerged ==
    (NumRead >= 2 /\ TimestampFails(consumed[NumRead])
       /\ Emits(consumed[NumRead - 1]))
    => /\ LastRecordIsOf(NumRead - 1)
       /\ Len(logLines[Len(logLines)].Content)
            > Len(parsedOf[consumed[NumRead - 1]].logLine.Content)
       /\ logLines[Len(logLines)].ByteEnd >= StartOf(NumRead)

\* C7, as stated: a line whose level name is not in the table does not
\* parse as a record (ok is false) and has no record.
C7_UnknownLevelNotARecord ==
    \A i \in 1 .. NumRead :
        (~NoGrammar(consumed[i])
           /\ ~occurredAtOf[consumed[i]].err
           /\ ExtractedOf(consumed[i]).levelPart \notin DOMAIN LogLevel_value)
        => /\ ~parsedOf[consumed[i]].ok
           /\ \A k \in DOMAIN logLines : logLines[k].ByteStart # StartOf(i)

\* C8: every record comes from a line read by this call whose level name
\* is not empty and whose time text parsed, and holds the parsed time.
C8_RecordsHaveLevelAndTime ==
    \A k \in DOMAIN logLines :
        \E i \in 1 .. NumRead :
            /\ logLines[k].ByteStart = StartOf(i)
            /\ ExtractedOf(consumed[i]).levelPart # ""
            /\ ~occurredAtOf[consumed[i]].err
            /\ logLines[k].OccurredAt
                 = occurredAtOf[consumed[i]].t
            /\ logLines[k].OccurredAt # ZeroTime

\* the sequence handed to the analyzer holds the record of a header that
\* was followed by a syslog line without level and by a line whose time
\* does not parse
C8_Witness ==
    /\ pc = "analyze"
    /\ consumed = <<"Header", "SyslogContinuation", "BadTime">>
    /\ Len(logLines) = 1
    /\ logLines[1].OccurredAt = 10
    /\ logLines[1].LogLevel = LogLevel_value["LOG"]

\* C9: for every record byte_start <= byte_content_start <= byte_end + 1;
\* and a record just appended starts at the offset before its line, ends at
\* the line's last byte, and its content starts len(content) bytes before
\* the end of the line.
C9_OffsetsWithinRecord ==
    /\ \A k \in DOMAIN logLines :
         /\ logLines[k].ByteStart <= logLines[k].ByteContentStart
         /\ logLines[k].ByteContentStart <= logLines[k].ByteEnd + 1
    /\ (NumRead >= 1 /\ Emits(consumed[NumRead])) =>
         /\ LastRecordIsOf(NumRead)
         /\ logLines[Len(logLines)].ByteEnd
              = StartOf(NumRead) + Len(textOf[consumed[NumRead]]) - 1
         /\ logLines[Len(logLines)].ByteContentStart
              = StartOf(NumRead) + Len(textOf[consumed[NumRead]])
                  - Len(parsedOf[consumed[NumRead]].logLine.Content)

\* a record with an empty content (byte_content_start = byte_end + 1 when
\* appended) has since been extended by a merge
C9_Witness ==
    /\ consumed = <<"Header", "HeaderEmptyContent", "Raw">>
    /\ Len(logLines) = 2
    /\ logLines[2].ByteContentStart = StartOf(3)
    /\ logLines[2].ByteEnd = currentByteStart - 1

\* C10: of two consecutive records the first starts and ends before the
\* second starts, and every record ends below the running offset, which is
\* the offset returned.
C10_OffsetsMonotonic ==
    /\ \A k \in 1 .. Len(logLines) - 1 :
         /\ logLines[k].ByteStart < logLines[k + 1].ByteStart
         /\ logLines[k].ByteEnd < logLines[k + 1].ByteStart
    /\ \A k \in DOMAIN logLines : logLines[k].ByteEnd < currentByteStart
    /\ pc = "done" =>
         \A k \in DOMAIN returned[call].logLines :
             returned[call].logLines[k].ByteEnd < returned[call].offset

\* two records, the first extended by a merge up to the byte before the
\* second, have been returned
C10_Witness ==
    /\ pc = "done"
    /\ consumed = <<"Header", "SyslogContinuation", "Header">>
    /\ Len(returned[call].logLines) = 2
    /\ returned[call].logLines[1].ByteEnd > StartOf(2)
    /\ returned[call].logLines[1].ByteEnd < returned[call].logLines[2].ByteStart

\* the step reads a line that fails to parse (the failure branch of the loop)
ReadsFailedLine ==
    /\ pc = "loop"
    /\ Len(consumed') = Len(consumed) + 1
    /\ ~parsedOf[consumed'[Len(consumed')]].ok

\* the fields of a record a continuation merge must leave alone
KeptFields(r) == [r EXCEPT !.Content = "", !.ByteEnd = 0]

\* C11: an iteration on a line that fails to parse leaves the number of
\* records and every record but the last unchanged, and changes of the last
\* one nothing but Content and ByteEnd (OccurredAt, LogLevel, Username,
\* Database, Application, BackendPid, UUID, ByteStart and ByteContentStart
\* stay); no identifier is made.
C11_MergeFrame ==
    [][ReadsFailedLine =>
          /\ Len(logLines') = Len(logLines)
          /\ \A k \in 1 .. Len(logLines) - 1 : logLines'[k] = logLines[k]
          /\ \A k \in DOMAIN logLines :
               KeptFields(logLines'[k]) = KeptFields(logLines[k])
          /\ uuids' = uuids]_vars

\* the second of two records has been extended by a merge, the first has
\* not
C11_Witness ==
    /\ consumed = <<"Header", "Header", "SyslogContinuation">>
    /\ Len(logLines) = 2
    /\ logLines[1].ByteEnd = StartOf(2) - 1
    /\ logLines[2].ByteStart = StartOf(2)
    /\ logLines[2].ByteEnd > StartOf(3) - 1
    /\ logLines[2].Content # logLines[1].Content

\* C12: an iteration on a line that fails to parse while there is no
\* record leaves the records empty, makes no identifier, stays in the loop
\* and returns nothing; the running offset advances by the line's length.
C12_OrphanDropped ==
    [][(ReadsFailedLine /\ logLines = <<>>) =>
          /\ logLines' = <<>>
          /\ uuids' = uuids
          /\ pc' = "loop"
          /\ returned' = returned
          /\ currentByteStart'
               = currentByteStart + lenOf[consumed'[Len(consumed')]]]_vars

\* a line that matches no grammar and a line whose time does not parse have
\* been read and dropped
C12_Witness ==
    /\ consumed = <<"Raw", "BadTime">>
    /\ logLines = <<>>
    /\ uuids = 0
    /\ currentByteStart = initialByteStart + lenOf["Raw"] + lenOf["BadTime"]

\* the scan of the running call has read the whole buffer
ScanComplete == rest = <<>> /\ restTail = "" /\ consumed = BufferLines

\* C13: AnalyzeLogLines is not called while the loop runs or before the
\* return statement; once a call has returned it has been called exactly
\* once, after the scan of the whole buffer, with the sequence the scan
\* produced, and the call returned the analyzer's two results and the final
\* running offset; and every call (empty buffer, no record, unterminated
\* tail included) does return.
C13_AnalyzedOnce ==
    /\ [](pc # "done" => analyzerCalls = <<>>)
    /\ [](pc = "done" =>
            /\ analyzerCalls = <<logLines>>
            /\ ScanComplete
            /\ returned[call]
                 = [done |-> TRUE,
                    logLines |-> AnalyzeLogLines(logLines).logLines,
                    samples |-> AnalyzeLogLines(logLines).samples,
                    offset |-> currentByteStart])
    /\ \A c \in {"whole", "A", "B"} : <>(returned[c].done)

\* a buffer that yields no record and ends in an unterminated line has been
\* analyzed and returned
C13_Witness ==
    /\ pc = "done" /\ call = "whole"
    /\ stream = <<"Raw">> /\ tail # ""
    /\ analyzerCalls = << <<>> >>
    /\ returned[call].logLines = <<>>
    /\ returned[call].offset = streamStart + lenOf["Raw"] + Len(tail)

(***************************************************************************)
(* Properties of ParseLogLineWithPrefix.                                   *)
(***************************************************************************)
\* the order in which the claim has the grammars tried
DetectionOrder ==
    <<LogPrefixAmazonRds, LogPrefixCustom1, LogPrefixCustom2, LogPrefixCustom4,
      LogPrefixCustom3, LogPrefixCustom5, LogPrefixCustom6, LogPrefixCustom7,
      LogPrefixSimple>>

\* the regular expression of a prefix, applied to l
RegexpOf(prefix, l) ==
    CASE prefix = LogPrefixAmazonRds -> LogPrefixAmazonRdsRegxp(l)
      [] prefix = LogPrefixCustom1 -> LogPrefixCustom1Regexp(l)
      [] prefix = LogPrefixCustom2 -> LogPrefixCustom2Regexp(l)
      [] prefix = LogPrefixCustom3 -> LogPrefixCustom3Regexp(l)
      [] prefix = LogPrefixCustom4 -> LogPrefixCustom4Regexp(l)
      [] prefix = LogPrefixCustom5 -> LogPrefixCustom5Regexp(l)
      [] prefix = LogPrefixCustom6 -> LogPrefixCustom6Regexp(l)
      [] prefix = LogPrefixCustom7 -> LogPrefixCustom7Regexp(l)
      [] prefix = LogPrefixSimple -> LogPrefixSimpleRegexp(l)

\* the places in DetectionOrder of the grammars that match l
MatchingPlaces(l) ==
    {i \in DOMAIN DetectionOrder : MatchString(RegexpOf(DetectionOrder[i], l))}

\* the least element of a non-empty set of numbers
Least(S) == CHOOSE i \in S : \A j \in S : i <= j

\* C14: with no prefix given, the result is that of the call with the first
\* grammar of DetectionOrder that matches the line; with none matching, that
\* of the syslog wrapper if it matches, and else the failure of a line that
\* matches no grammar; and a line matched by custom 3 and custom 4 both
\* with their user part has the fields of the custom 4 mapping.
C14_FormatPriority ==
    (parseResult.called /\ argPrefix = LogPrefixEmpty) =>
        LET places == MatchingPlaces(argLine)
            got == [logLine |-> parseResult.logLine, ok |-> parseResult.ok]
        IN  /\ places # {} =>
                 got = ParseLogLineWithPrefix(DetectionOrder[Least(places)],
                                              argLine)
            /\ (places = {} /\ MatchString(RsyslogRegexp(argLine))) =>
                 got = ParseExtracted(ExtractRsyslog(argLine))
            /\ (places = {} /\ ~MatchString(RsyslogRegexp(argLine))) =>
                 /\ ~got.ok
                 /\ got.logLine.Content = Text(argLine)
            /\ argLine.shape = "custom4" =>
                 /\ MatchString(LogPrefixCustom3Regexp(argLine))
                 /\ MatchString(LogPrefixCustom4Regexp(argLine))
                 /\ got.ok
                 /\ got.logLine.Application = Scrub(argLine.app)
                 /\ got.logLine.Username = Scrub(argLine.user)
                 /\ got.logLine.Database = Scrub(argLine.db)

\* a line that custom 3 and custom 4 both match has been parsed with no
\* prefix given, and its application is the text before ",host="
C14_Witness ==
    /\ parseResult.called /\ argPrefix = LogPrefixEmpty
    /\ argLine.shape = "custom4"
    /\ argLine.app = "alice"
    /\ parseResult.ok
    /\ parseResult.logLine.Application = "alice"
    /\ LogPrefixCustom3Regexp(argLine)[5] = "alice,host=10.0.0.1"

\* the local variables of the call after the extraction
ArgExtracted ==
    ExtractDetected(IF argPrefix = LogPrefixEmpty THEN DetectPrefix(argLine)
                    ELSE [prefix |-> argPrefix, rsyslog |-> FALSE], argLine)

\* the field of the result is the extracted part, or empty for "[unknown]"
Scrubbed(field, part) ==
    /\ part = "[unknown]" => field = ""
    /\ part # "[unknown]" => field = part

ResultScrubbed ==
    /\ Scrubbed(parseResult.logLine.Username, ArgExtracted.userPart)
    /\ Scrubbed(parseResult.logLine.Database, ArgExtracted.dbPart)
    /\ Scrubbed(parseResult.logLine.Application, ArgExtracted.appPart)

\* C15, as stated: whenever parts have been extracted, each of the three
\* fields of the result is empty for the part "[unknown]" and is the part
\* otherwise.
C15_SentinelScrubbing ==
    (parseResult.called /\ ~ArgExtracted.returned) => ResultScrubbed

\* C15, amended: that holds when the time part parses; when it does not,
\* the function returns before the fields are stored and all three are
\* empty whatever was extracted.
C15_SentinelScrubbingOnceTimed ==
    (parseResult.called /\ ~ArgExtracted.returned) =>
        IF ParseOccurredAt(ArgExtracted).err
        THEN /\ parseResult.logLine.Username = ""
             /\ parseResult.logLine.Database = ""
             /\ parseResult.logLine.Application = ""
        ELSE ResultScrubbed

\* a syslog line with the embedded sub-format has been parsed: its user is
\* the placeholder and its application is not
C15_Witness ==
    /\ parseResult.called /\ parseResult.ok
    /\ argLine.shape = "syslog" /\ argLine.q
    /\ argLine.user = "[unknown]" /\ argLine.app = "alice"
    /\ parseResult.logLine.Username = ""
    /\ parseResult.logLine.Application = "alice"

\* the pid text is a decimal text whose value a 32-bit integer holds
FitsInt32(s) ==
    /\ s \in DOMAIN DecimalTexts
    /\ DecimalTexts[s][3] = 0 /\ DecimalTexts[s][4] = 0
    /\ DecimalTexts[s][2] < Limb \div 2

\* C16, as stated: the backend_pid of a parsed line is the value of the pid
\* text when a 32-bit integer holds it, and 0 otherwise (absent, no number,
\* or too large).
C16_BackendPidOrZero ==
    (parseResult.called /\ parseResult.ok) =>
        IF FitsInt32(ArgExtracted.pidPart)
        THEN parseResult.logLine.BackendPid
               = DecimalTexts[ArgExtracted.pidPart][2] * Limb
                   + DecimalTexts[ArgExtracted.pidPart][1]
        ELSE parseResult.logLine.BackendPid = 0

(***************************************************************************)
(* More properties of ParseAndAnalyzeBuffer.                               *)
(***************************************************************************)
\* C17, as stated: when a line is merged into a record, the record is that
\* of a header read before it, and every line read between that header and
\* the merged line failed to parse (no header discarded by the cutoff lies
\* in between).
C17_AttachOnlyToOwnHeader ==
    [][(ReadsFailedLine /\ logLines' # logLines) =>
          \E h \in 1 .. NumRead :
              /\ logLines'[Len(logLines')].ByteStart = StartOf(h)
              /\ \A m \in h + 1 .. NumRead : ~parsedOf[consumed[m]].ok]_vars

(***************************************************************************)
(* Properties of DebugParseAndAnalyzeBuffer.                               *)
(***************************************************************************)
\* C18, as stated: the debug scan never indexes an empty logLines; a
\* wrapped-debug line without SQLSTATE and level read when there is no
\* record leaves the records empty and the scan in its loop.
C18_NoOutOfBounds ==
    /\ pc # "panic"
    /\ (pc = "loop" /\ NumRead >= 1
          /\ IsHeroku(consumed[1]) /\ ~HasSqlstateAndLevel(consumed[1])
          /\ \A i \in 1 .. NumRead : consumed[i] = consumed[1])
       => logLines = <<>>

\* C19, as stated: right after the debug scan has read a line that is not
\* in the wrapped-debug format and that ParseLogLineWithPrefix parses, the
\* last record is the parsed line with its offsets, as ParseAndAnalyzeBuffer
\* stamps it.
C19_DebugAppendsParsedLine ==
    (call = "debug" /\ pc = "loop" /\ NumRead >= 1
       /\ ~IsHeroku(consumed[NumRead]) /\ parsedOf[consumed[NumRead]].ok)
    => /\ logLines # <<>>
       /\ logLines[Len(logLines)]
            = Stamp(parsedOf[consumed[NumRead]].logLine, StartOf(NumRead),
                    textOf[consumed[NumRead]], uuids)

(***************************************************************************)
(* Properties of CollectActivityFromAllServers.                            *)
(***************************************************************************)
\* the servers whose goroutine has got an error from processActivityForServer
ErrorSlots ==
    {g \in Slots : goPc[g] \in {"returned", "failed", "done", "finished"}
                     /\ goLocal[g].err # Nil}

\* C20: a skipped server never gets a goroutine; once the call has left
\* wg.Wait the goroutine of every other server has finished; and the result
\* is false exactly if processActivityForServer returned an error for one of
\* them.
C20_WaitsAndReports ==
    /\ \A g \in Slots :
         (mainPc # "idle" /\ Skipped(servers[g])) => goPc[g] = "none"
    /\ mainPc \in {"waited", "returned"}
         => \A g \in Slots : ~Skipped(servers[g]) => goPc[g] = "finished"
    /\ mainPc = "returned"
         => /\ activityResult \in BOOLEAN
            /\ (activityResult = FALSE) <=> (ErrorSlots # {})

\* a call with a skipped server has returned false after the goroutine of
\* the other server got an error and finished
C20_Witness ==
    /\ mainPc = "returned"
    /\ activityResult = FALSE
    /\ \E g \in Slots : Skipped(servers[g])
    /\ \E g \in Slots : goPc[g] = "finished" /\ goLocal[g].err # Nil

\* the goroutine is between its Lock and its Unlock
Holding(g) == goPc[g] \in {"locked", "returned", "stored"}

\* the mutex of the server of goroutine g
MutexOf(g) == ActivityStateMutex[serverId[g]]

\* what a step does to the mutex of the goroutine that takes it: locked by
\* the step that enters the section, unlocked by the one step that leaves
\* it, which comes before the step to wg.Done, and untouched otherwise
LocksAndUnlocksOnce ==
    /\ \A g \in Slots :
         goPc'[g] # goPc[g] =>
           /\ Holding(g)' /\ ~Holding(g) => goPc[g] = "start" /\ ~MutexOf(g) /\ MutexOf(g)'
           /\ Holding(g) /\ ~Holding(g)' =>
                /\ goPc'[g] \in {"failed", "unlocked"}
                /\ MutexOf(g) /\ ~MutexOf(g)'
                /\ (goPc'[g] = "failed") <=> (goLocal[g].err # Nil)
           /\ Holding(g) = Holding(g)' => MutexOf(g)' = MutexOf(g)
           /\ goPc'[g] = "done" => goPc[g] \in {"failed", "unlocked"}
           /\ goPc'[g] = "stored" => ActivityPrevState'[serverId[g]] = goLocal[g].newState
           /\ goPc'[g] # "stored" => ActivityPrevState' = ActivityPrevState
    /\ ActivityStateMutex' # ActivityStateMutex => \E g \in Slots : goPc'[g] # goPc[g]

\* C21: a goroutine holds the mutex of its server from Lock, through
\* processActivityForServer and the assignment to ActivityPrevState, to its
\* one Unlock, on the error path as on the other, before wg.Done; two
\* goroutines on the same server are never both in that section; while the
\* call has not returned some step can be taken; and once it has returned no
\* mutex is locked.
C21_MutexDiscipline ==
    /\ [](\A g \in Slots : Holding(g) => MutexOf(g))
    /\ [](\A g, h \in Slots :
            (g # h /\ serverId[g] = serverId[h]) => ~(Holding(g) /\ Holding(h)))
    /\ [][LocksAndUnlocksOnce]_vars
    /\ [](mainPc \in {"loop", "waited"} => ENABLED ActivityNext)
    /\ [](mainPc = "returned" => \A g \in Slots : ~MutexOf(g))

\* the call has returned after two goroutines on the same server, one with
\* an error and one without, have both finished
C21_Witness ==
    /\ mainPc = "returned"
    /\ \E g, h \in Slots :
         /\ g # h /\ serverId[g] = serverId[h]
         /\ goPc[g] = "finished" /\ goLocal[g].err # Nil
         /\ goPc[h] = "finished" /\ goLocal[h].err = Nil
    /\ \A g \in Slots : ~MutexOf(g)

\* the grant is consulted and lets the collection go on, or is not consulted
PassesGrant(forceEmptyGrant, e) ==
    forceEmptyGrant \/ (~e.grantErr /\ e.EnableActivity)

\* one of the steps of processActivityForServer fails
SomeStepFails(forceEmptyGrant, e) ==
    \/ ~forceEmptyGrant /\ e.grantErr
    \/ /\ PassesGrant(forceEmptyGrant, e)
       /\ \/ e.connectionErr \/ e.versionErr \/ e.tooOld
          \/ e.backendsErr \/ e.vacuumsErr \/ e.submitErr

\* the grant is got and disables activity
DisabledByGrant(forceEmptyGrant, e) ==
    ~forceEmptyGrant /\ ~e.grantErr /\ ~e.EnableActivity

\* what processActivityForServer returns, for every previous state, option
\* and answer of the environment: an error and the previous state when a step
\* fails, no error and the previous state when the grant disables activity,
\* and otherwise (the submission has succeeded) the state with the collection
\* time
ReturnsChangeOnlyOnSuccess ==
    \A prevState \in ActivityStates, forceEmptyGrant \in BOOLEAN, e \in Environments :
       LET r == processActivityForServer(prevState, forceEmptyGrant, e)
       IN  /\ SomeStepFails(forceEmptyGrant, e)
                => r.err # Nil /\ ~r.success /\ r.newState = prevState
           /\ DisabledByGrant(forceEmptyGrant, e)
                => r.err = Nil /\ ~r.success /\ r.newState = prevState
           /\ (~SomeStepFails(forceEmptyGrant, e) /\ ~DisabledByGrant(forceEmptyGrant, e))
                => /\ r.err = Nil /\ r.success /\ ~e.submitErr
                   /\ r.newState = [prevState EXCEPT !.ActivitySnapshotAt = TimeNow]

\* the goroutine has its results and they are without error and success
Unsuccessful(g) ==
    /\ goPc[g] \in {"returned", "stored", "unlocked", "done", "finished"}
    /\ goLocal[g].err = Nil /\ ~goLocal[g].success

\* the goroutine has got an error
Errored(g) ==
    /\ goPc[g] \in {"returned", "failed", "done", "finished"}
    /\ goLocal[g].err # Nil

\* a step changes the state of a server only by storing a successful result,
\* with the collection time; a step of a goroutine with an error or without
\* success leaves every state as it is; and a callback is started only for
\* success, or for an error
StepChangesOnlyOnSuccess ==
    /\ \A s \in Slots :
         ActivityPrevState'[s] # ActivityPrevState[s] =>
           \E g \in Slots :
              /\ serverId[g] = s
              /\ goPc[g] = "returned" /\ goPc'[g] = "stored"
              /\ goLocal[g].success /\ goLocal[g].err = Nil
              /\ ActivityPrevState'[s].ActivitySnapshotAt = TimeNow
    /\ \A g \in Slots :
         (goPc'[g] # goPc[g] /\ (Errored(g) \/ Unsuccessful(g)))
         => /\ ActivityPrevState' = ActivityPrevState
            /\ \A cb \in callbacks' \ callbacks : cb.kind = "error" /\ Errored(g)
    /\ \A cb \in callbacks' \ callbacks :
         \/ cb.kind = "success" /\ goLocal[cb.slot].success /\ goLocal[cb.slot].err = Nil
         \/ cb.kind = "error" /\ Errored(cb.slot)

====
